---- MODULE Spec2Model ----
(***************************************************************************)
(* Session-scoped, deduplicating random sampler of the communication       *)
(* support app: utils.py (_get_used_set, _mark_used, _sample_without_used, *)
(* pool resolvers, get_prompts), the reset button of                       *)
(* components.render_sidebar_controls and the page run of main.page.       *)
(*                                                                         *)
(* One session, one logical actor: a run (a page run, or a direct call of  *)
(* _sample_without_used as a unit test makes it) starts only when no run   *)
(* is in progress.  Random draws are nondeterministic choices.             *)
(***************************************************************************)
EXTENDS Integers, Sequences, FiniteSets, TLC

\* ------------------------------------------------------------------ bounds
\* Longest pool handed to a direct call; also the number of distinct item
\* texts the model knows (a pool of MaxLen entries holds at most MaxLen texts).
MaxLen == 3
\* Largest n a direct call asks for (the page asks for 3 or 1, see PageN).
MaxN == 2

\* ------------------------------------------------------------- item texts
\* Item texts are opaque strings.
ItemNames == <<"a", "b", "c", "d", "e", "f", "g", "h", "i", "j", "k", "l", "m", "n", "o">>

Items == {ItemNames[i] : i \in 1..MaxLen}

\* hash(s): identity of an item is the hash of its text, an integer; equal
\* texts have equal hashes, and the texts of the model do not collide.
Hash(s) == 7919 * (CHOOSE i \in 1..Len(ItemNames) : ItemNames[i] = s)

Range(seq) == {seq[i] : i \in 1..Len(seq)}

\* A list whose entries are pairwise different.
NoDup(seq) == \A i, j \in 1..Len(seq) : i # j => seq[i] # seq[j]

\* Pools of a direct call: every sequence of items up to MaxLen entries,
\* duplicates included, up to renaming of the items (the first new text of a
\* pool is "a", the next new one "b", ...).
IsCanonical(seq) ==
    \A i \in 1..Len(seq) :
        \E k \in 1..MaxLen :
            /\ seq[i] = ItemNames[k]
            /\ \A m \in 1..(k - 1) : \E j \in 1..(i - 1) : seq[j] = ItemNames[m]

Pools == {seq \in UNION {[1..len -> Items] : len \in 0..MaxLen} : IsCanonical(seq)}

\* --------------------------------------------------- static configuration
\* The constants module (item tables, Mode, level labels) is configuration
\* outside the sampler; its tables are abstracted to short lists of item
\* texts.  LevelSize stands for the 12 questions of one AA36 level.
LevelSize == MaxLen

AA36_QUESTIONS == [i \in 1..(3 * LevelSize) |-> ItemNames[i]]

AA36_BUSINESS_REWRITE == [i \in 1..LevelSize |-> ItemNames[i]]

ITTAKU_TOPICS == <<ItemNames[1], ItemNames[2]>>

ITTAKU_BUSINESS_TOPICS == <<ItemNames[2], ItemNames[3]>>

CRIMINAL_TEMPLATE == <<ItemNames[1]>>

COMPLAINER_TEMPLATE == <<ItemNames[2]>>

\* The (mode, level) pairs the sidebar is driven through in this model.
Selections == {<<"aa36", "beginner">>, <<"ittaku", "beginner">>}

\* Mode: the three modes of the sidebar.
Modes == {"aa36", "ittaku", "villain"}

\* Level strings handed to get_prompts: the ones the resolvers recognize and
\* two they do not.
Levels == {"business", "beginner", "intermediate", "advanced", "topic_only",
           "business_topic", "criminal", "claimer", "expert", ""}

\* dedup_key = f"{mode.value}:{level}"
DedupKey(mode, level) == mode \o ":" \o level

Keys == {DedupKey(sel[1], sel[2]) : sel \in Selections}

\* ----------------------------------------------------------- pool resolver
\* Mutant: an unrecognized level gets the first level's questions.
_aa36_pool_first_level(level) ==
    IF level = "business" THEN AA36_BUSINESS_REWRITE
    ELSE IF level = "intermediate" THEN SubSeq(AA36_QUESTIONS, LevelSize + 1, 2 * LevelSize)
    ELSE IF level = "advanced" THEN SubSeq(AA36_QUESTIONS, 2 * LevelSize + 1, 3 * LevelSize)
    ELSE SubSeq(AA36_QUESTIONS, 1, LevelSize)

_aa36_pool(level) ==
    IF level = "business" THEN AA36_BUSINESS_REWRITE
    ELSE IF level = "beginner" THEN SubSeq(AA36_QUESTIONS, 1, LevelSize)
    ELSE IF level = "intermediate" THEN SubSeq(AA36_QUESTIONS, LevelSize + 1, 2 * LevelSize)
    ELSE IF level = "advanced" THEN SubSeq(AA36_QUESTIONS, 2 * LevelSize + 1, 3 * LevelSize)
    ELSE AA36_QUESTIONS

_ittaku_pool(level) ==
    IF level = "beginner" THEN ITTAKU_TOPICS
    ELSE IF level = "topic_only" THEN ITTAKU_TOPICS
    ELSE IF level = "business_topic" THEN ITTAKU_BUSINESS_TOPICS
    ELSE ITTAKU_TOPICS

_villain_pool(level) ==
    IF level = "criminal" THEN CRIMINAL_TEMPLATE
    ELSE IF level = "claimer" THEN COMPLAINER_TEMPLATE
    ELSE CRIMINAL_TEMPLATE

\* get_prompts: the pool handed to _sample_without_used for (mode, level).
ResolvePool(mode, level) ==
    IF mode = "aa36" THEN _aa36_pool(level)
    ELSE IF mode = "ittaku" THEN _ittaku_pool(level)
    ELSE _villain_pool(level)

\* n = 3 if controls["mode"] == Mode.AA36 else 1
PageN(mode) == IF mode = "aa36" THEN 3 ELSE 1

\* ----------------------------------------------------------- used-set store
\* st.session_state["used_prompt_ids"]: a dict dedup_key -> set of hashes,
\* modelled as a function whose domain is the set of keys present.
EmptyMap == [k \in {} |-> {}]

\* The set a key holds; a key that is absent holds nothing.
UsedOf(used_map, key) == IF key \in DOMAIN used_map THEN used_map[key] ELSE {}

\* Mutant: the key's set is created anew on every access.
GetUsedSetFresh(used_map, key) ==
    [k \in DOMAIN used_map \cup {key} |-> IF k = key THEN {} ELSE used_map[k]]

\* _get_used_set: creates the key with an empty set when it is absent.
GetUsedSet(used_map, key) ==
    IF key \in DOMAIN used_map
    THEN used_map
    ELSE [k \in DOMAIN used_map \cup {key} |-> IF k = key THEN {} ELSE used_map[k]]

\* Mutant: the identifier is added to the set of every key present.
MarkUsedEveryKey(used_map, key, pid) ==
    [k \in DOMAIN used_map \cup {key} |-> UsedOf(used_map, k) \cup {pid}]

\* _mark_used: used_map.setdefault(dedup_key, set()).add(pid)
MarkUsed(used_map, key, pid) ==
    [k \in DOMAIN used_map \cup {key} |->
        IF k = key THEN UsedOf(used_map, key) \cup {pid} ELSE used_map[k]]

\* Mutant: the key's record is replaced by the batch instead of extended.
MarkAllFresh(used_map, key, chosen_items) ==
    [k \in DOMAIN used_map \cup {key} |->
        IF k = key THEN {Hash(chosen_items[i]) : i \in 1..Len(chosen_items)} ELSE used_map[k]]

\* Mutant: only the first item of the batch is marked.
MarkFirstOnly(used_map, key, chosen_items) ==
    IF chosen_items = <<>>
    THEN used_map
    ELSE MarkUsed(used_map, key, Hash(Head(chosen_items)))

\* for c in chosen: _mark_used(dedup_key, hash(c))
RECURSIVE MarkAll(_, _, _)
MarkAll(used_map, key, chosen_items) ==
    IF chosen_items = <<>>
    THEN used_map
    ELSE MarkAll(MarkUsed(used_map, key, Hash(Head(chosen_items))), key, Tail(chosen_items))

\* Mutant: the button drops one key's record and keeps the others.
ResetOneKey(used_map) ==
    IF DOMAIN used_map = {}
    THEN used_map
    ELSE LET gone == CHOOSE k \in DOMAIN used_map : TRUE
         IN [k \in DOMAIN used_map \ {gone} |-> used_map[k]]

\* Mutant: the button leaves the mapping as it is.
ResetNothing(used_map) == used_map

\* The update button: st.session_state["used_prompt_ids"] = {}
ResetAll(used_map) == EmptyMap

\* ---------------------------------------------------------------- generator
\* Seed strings handed to get_rng: the empty string (the page's seed, which
\* becomes None) and two non-empty ones.
Seeds == {"", "alpha", "beta"}

\* int(hashlib.sha256(seed.encode("utf-8")).hexdigest()[:16], 16): a fixed
\* integer per seed string (the 64-bit values are abstracted to small ones).
Sha256Prefix(seed) == IF seed = "alpha" THEN 11 ELSE IF seed = "beta" THEN 23 ELSE 37

\* _seed_to_int: None (no value) for an empty seed, else the digest prefix.
\* An Optional[int] is a sequence of at most one integer.
_seed_to_int(seed) == IF seed = "" THEN <<>> ELSE <<Sha256Prefix(seed)>>

\* Mutant: the seed is dropped and the generator seeds itself from the system.
get_rng_unseeded(seed) == [seeded |-> FALSE, state |-> 0, pos |-> 0]

\* get_rng: random.Random() (seeded from the system, so its outputs are
\* free) when there is no seed, else random.Random(s), whose outputs are a
\* function of s and of the number of outputs taken so far.
get_rng(seed) ==
    LET s == _seed_to_int(seed) IN
        IF s = <<>>
        THEN [seeded |-> FALSE, state |-> 0, pos |-> 0]
        ELSE [seeded |-> TRUE, state |-> s[1], pos |-> 0]

\* The outputs a seeded generator has delivered so far are kept on a tape per
\* seed integer: cell p holds the bound k and the value of the p-th
\* randbelow(k).  A generator rebuilt from the same integer replays the tape.
TapeOf(tp, g) == IF g.state \in DOMAIN tp THEN tp[g.state] ELSE <<>>

\* The largest of a sequence of bounds (1 when there is none).
Top(bounds) ==
    CHOOSE m \in Range(bounds) \cup {1} : \A x \in Range(bounds) \cup {1} : x <= m

\* The value sequences len(bounds) successive randbelow calls of generator g
\* can return, the i-th below bounds[i].
RandBelow(tp, g, bounds) ==
    {d \in [1..Len(bounds) -> 0..(Top(bounds) - 1)] :
        /\ \A i \in 1..Len(bounds) : d[i] < bounds[i]
        /\ g.seeded =>
              \A i \in 1..Len(bounds) :
                  (g.pos + i <= Len(TapeOf(tp, g)) /\ TapeOf(tp, g)[g.pos + i][1] = bounds[i])
                      => d[i] = TapeOf(tp, g)[g.pos + i][2]}

\* The tape once generator g has delivered values d below bounds.
TapeAfter(tp, g, bounds, d) ==
    IF ~g.seeded THEN tp
    ELSE LET old == TapeOf(tp, g)
             new == [p \in 1..(g.pos + Len(bounds)) |->
                        IF p <= Len(old) THEN old[p]
                        ELSE <<bounds[p - g.pos], d[p - g.pos]>>]
         IN [st \in DOMAIN tp \cup {g.state} |-> IF st = g.state THEN new ELSE tp[st]]

\* The generator once it has delivered count more outputs.
Advance(g, count) == IF g.seeded THEN [g EXCEPT !.pos = @ + count] ELSE g

\* ------------------------------------------------------------------ sampler
\* Mutant: the used set is not consulted.
CandidatesUnfiltered(pool, used) == pool

\* candidates = [s for s in items if hash(s) not in used]
Candidates(pool, used) == SelectSeq(pool, LAMBDA s : Hash(s) \notin used)

\* rng.sample(candidates, n) draws k times: randbelow(len), randbelow(len - 1), ...
SampleBounds(cands, k) == [i \in 1..k |-> Len(cands) - i + 1]

\* rng.sample(candidates, n) with the randbelow values d: the i-th result is
\* the entry at the drawn position of a working copy, whose last entry then
\* takes the drawn position.
RECURSIVE SampleWith(_, _, _)
SampleWith(cands, k, d) ==
    IF k = 0 THEN <<>>
    ELSE LET j == d[1] + 1
             moved == [cands EXCEPT ![j] = cands[Len(cands)]]
         IN <<cands[j]>> \o SampleWith(SubSeq(moved, 1, Len(cands) - 1), k - 1, Tail(d))

\* rng.choice(refill) with the randbelow value v
ChoiceWith(seq, v) == seq[v + 1]

\* Mutant: every entry equal to x is dropped.
RemoveEvery(seq, x) == SelectSeq(seq, LAMBDA e : e # x)

\* list.remove(x): drops the first entry equal to x.
RECURSIVE Remove(_, _)
Remove(seq, x) ==
    IF seq = <<>> THEN <<>>
    ELSE IF Head(seq) = x THEN Tail(seq)
    ELSE <<Head(seq)>> \o Remove(Tail(seq), x)

\* Mutant: refill = items, an alias, so the removal reaches the pool.
PoolAfterRemoveAliased(pool, pick) == Remove(pool, pick)

\* refill = items[:] is a copy, so refill.remove(pick) leaves the pool as it is.
PoolAfterRemove(pool, pick) == pool

\* Mutant: the draw is made without comparing the candidates with n.
DirectDrawAlways(cands, k) == TRUE

\* if len(candidates) >= n: the direct draw; else: the refill branch
DirectDraw(cands, k) == Len(cands) >= k

\* Mutant: the refill draws from the unused candidates only.
RefillFromCandidates(pool, cands) == cands

\* refill = items[:]: the refill draws from the full pool
RefillSource(pool, cands) == pool

\* Mutant: the refill starts from an empty selection.
StartEmpty(cands) == <<>>

\* chosen = list(candidates): the refill starts from every unused candidate
StartSelection(cands) == cands

\* if pick not in chosen
Accepts(chosen_items, pick) == pick \notin Range(chosen_items)

\* -------------------------------------------------------------------- state
VARIABLES
    used_prompt_ids,  \* st.session_state["used_prompt_ids"]
    pc,               \* "idle", "called", "refill", "mark", "done"
    items,            \* the pool list handed to _sample_without_used
    n,                \* the requested count
    dedup_key,        \* the dedup key of the run
    chosen,           \* the selection being built, then the returned batch
    refill,           \* the refill copy of the pool
    still_need,       \* items still to add in the refill loop
    button,           \* the update button fired in this page run
    branch,           \* "none", "direct" or "refill": the branch the call took
    used0,            \* used_prompt_ids when _sample_without_used was entered
    items0,           \* the pool's entries when the call was made
    served,           \* per key, the items returned since the last reset
    cleared,          \* the used mapping the update button wiped in this run
    controls,         \* <<mode, level>> of the page run or get_prompts call; else <<>>
    seed,             \* the seed string of the run ("" when there is none)
    rng,              \* the generator get_rng built for the run
    tape,             \* per seed integer, the outputs delivered so far
    first             \* <<seed, batch>> of the first finished run; <<>> before

vars == <<used_prompt_ids, pc, items, n, dedup_key, chosen, refill, still_need,
          button, branch, used0, items0, served, cleared, controls, seed, rng, tape, first>>

NothingServed == [k \in Keys |-> {}]

\* ensure_session_state: used_prompt_ids starts as an empty dict.
Init ==
    /\ used_prompt_ids = EmptyMap
    /\ pc = "idle"
    /\ items = <<>>
    /\ n = 0
    /\ dedup_key = ""
    /\ chosen = <<>>
    /\ refill = <<>>
    /\ still_need = 0
    /\ button = FALSE
    /\ branch = "none"
    /\ used0 = EmptyMap
    /\ items0 = <<>>
    /\ served = NothingServed
    /\ cleared = EmptyMap
    /\ controls = <<>>
    /\ seed = ""
    /\ rng = get_rng("")
    /\ tape = EmptyMap
    /\ first = <<>>

\* main.page up to the call of _sample_without_used: the sidebar yields mode
\* and level, the update button (when pressed) resets the used mapping, then
\* get_prompts resolves the pool.
PageRun(mode, level, pressed) ==
    /\ pc = "idle"
    /\ used_prompt_ids' = IF pressed THEN ResetAll(used_prompt_ids) ELSE used_prompt_ids
    /\ served' = IF pressed THEN NothingServed ELSE served
    /\ button' = pressed
    /\ cleared' = IF pressed THEN used_prompt_ids ELSE EmptyMap
    /\ items' = ResolvePool(mode, level)
    /\ items0' = ResolvePool(mode, level)
    /\ n' = PageN(mode)
    /\ dedup_key' = DedupKey(mode, level)
    /\ controls' = <<mode, level>>
    /\ seed' = ""
    /\ rng' = get_rng("")
    /\ pc' = "called"
    /\ UNCHANGED <<chosen, refill, still_need, branch, used0, tape, first>>

\* A direct call _sample_without_used(pool, k, rng, key) with an unseeded
\* generator.
DirectCall(pool, k, key) ==
    /\ pc = "idle"
    /\ items' = pool
    /\ items0' = pool
    /\ n' = k
    /\ dedup_key' = key
    /\ button' = FALSE
    /\ controls' = <<>>
    /\ seed' = ""
    /\ rng' = get_rng("")
    /\ pc' = "called"
    /\ UNCHANGED <<used_prompt_ids, served, cleared, chosen, refill, still_need, branch, used0,
                   tape, first>>

\* Lines 95-103: the used set, the candidates, and either the direct draw or
\* the start of the refill.
Begin ==
    /\ pc = "called"
    /\ used0' = used_prompt_ids
    /\ used_prompt_ids' = GetUsedSet(used_prompt_ids, dedup_key)
    /\ LET cands == Candidates(items, UsedOf(used_prompt_ids, dedup_key)) IN
        IF DirectDraw(cands, n)
        THEN /\ \E d \in RandBelow(tape, rng, SampleBounds(cands, n)) :
                    /\ chosen' = SampleWith(cands, n, d)
                    /\ tape' = TapeAfter(tape, rng, SampleBounds(cands, n), d)
             /\ rng' = Advance(rng, n)
             /\ refill' = <<>>
             /\ still_need' = 0
             /\ branch' = "direct"
             /\ pc' = "mark"
        ELSE /\ chosen' = StartSelection(cands)
             /\ still_need' = n - Len(cands)
             /\ refill' = RefillSource(items, cands)
             /\ branch' = "refill"
             /\ pc' = "refill"
             /\ UNCHANGED <<rng, tape>>
    /\ UNCHANGED <<items, n, dedup_key, button, items0, served, cleared, controls, seed, first>>

\* Lines 104-109: one iteration of the refill loop.
RefillStep ==
    /\ pc = "refill"
    /\ still_need > 0
    /\ refill # <<>>
    /\ \E d \in RandBelow(tape, rng, <<Len(refill)>>) :
        LET pick == ChoiceWith(refill, d[1]) IN
            /\ IF Accepts(chosen, pick)
               THEN /\ chosen' = Append(chosen, pick)
                    /\ still_need' = still_need - 1
               ELSE UNCHANGED <<chosen, still_need>>
            /\ refill' = Remove(refill, pick)
            /\ items' = PoolAfterRemove(items, pick)
            /\ tape' = TapeAfter(tape, rng, <<Len(refill)>>, d)
    /\ rng' = Advance(rng, 1)
    /\ UNCHANGED <<used_prompt_ids, pc, n, dedup_key, button, branch, used0, items0, served, cleared,
                   controls, seed, first>>

\* Line 104: the loop condition fails.
RefillExit ==
    /\ pc = "refill"
    /\ ~(still_need > 0 /\ refill # <<>>)
    /\ pc' = "mark"
    /\ UNCHANGED <<used_prompt_ids, items, n, dedup_key, chosen, refill, still_need,
                   button, branch, used0, items0, served, cleared, controls, seed, rng, tape, first>>

\* Lines 111-114: every chosen item is marked used, and the batch is returned.
MarkAndReturn ==
    /\ pc = "mark"
    /\ used_prompt_ids' = MarkAll(used_prompt_ids, dedup_key, chosen)
    /\ served' = [served EXCEPT ![dedup_key] = @ \cup Range(chosen)]
    /\ pc' = "done"
    /\ UNCHANGED <<items, n, dedup_key, chosen, refill, still_need, button, branch,
                   used0, items0, cleared, controls, seed, rng, tape, first>>

\* The caller takes the batch (the page renders it) and the run ends.
Finish ==
    /\ pc = "done"
    /\ pc' = "idle"
    /\ items' = <<>>
    /\ n' = 0
    /\ dedup_key' = ""
    /\ chosen' = <<>>
    /\ refill' = <<>>
    /\ still_need' = 0
    /\ button' = FALSE
    /\ branch' = "none"
    /\ used0' = EmptyMap
    /\ items0' = <<>>
    /\ cleared' = EmptyMap
    /\ controls' = <<>>
    /\ seed' = ""
    /\ rng' = get_rng("")
    /\ UNCHANGED <<used_prompt_ids, served, tape, first>>

Next ==
    \/ \E sel \in Selections, pressed \in BOOLEAN : PageRun(sel[1], sel[2], pressed)
    \/ \E pool \in Pools, k \in 0..MaxN, key \in Keys : DirectCall(pool, k, key)
    \/ Begin
    \/ RefillStep
    \/ RefillExit
    \/ MarkAndReturn
    \/ Finish

Spec == Init /\ [][Next]_vars

\* ------------------------------------------------- two runs of one program
\* The first run of a program that builds its generator with get_rng(sd) and
\* calls _sample_without_used(pool, k, rng, key) in a new session.
SeededCall(sd, pool, k, key) ==
    /\ pc = "idle"
    /\ items' = pool
    /\ items0' = pool
    /\ n' = k
    /\ dedup_key' = key
    /\ seed' = sd
    /\ rng' = get_rng(sd)
    /\ pc' = "called"
    /\ UNCHANGED <<used_prompt_ids, served, cleared, chosen, refill, still_need, button, branch,
                   used0, controls, tape, first>>

\* The second run of the same program, with the same pool, n and key and the
\* seed sd, in a new process: the session is new and the used mapping empty,
\* the generator is built again by get_rng.  The first run's seed and batch
\* are remembered.
Rerun(sd) ==
    /\ pc = "done"
    /\ first = <<>>
    /\ first' = <<seed, chosen>>
    /\ used_prompt_ids' = EmptyMap
    /\ served' = NothingServed
    /\ items' = items0
    /\ seed' = sd
    /\ rng' = get_rng(sd)
    /\ chosen' = <<>>
    /\ refill' = <<>>
    /\ still_need' = 0
    /\ branch' = "none"
    /\ used0' = EmptyMap
    /\ pc' = "called"
    /\ UNCHANGED <<n, dedup_key, items0, button, cleared, controls, tape>>

NextSeed ==
    \/ \E sd \in Seeds, pool \in Pools, k \in 0..MaxN, key \in Keys : SeededCall(sd, pool, k, key)
    \/ \E sd \in Seeds : Rerun(sd)
    \/ Begin
    \/ RefillStep
    \/ RefillExit
    \/ MarkAndReturn

SeedSpec == Init /\ [][NextSeed]_vars

\* ------------------------------------------------- get_prompts on its own
\* A call get_prompts(mode, level, k, rng, dedup_key) in a new session, with
\* an unseeded generator and the key the sidebar would give.
GetPrompts(mode, level, k) ==
    /\ pc = "idle"
    /\ used_prompt_ids' = EmptyMap
    /\ served' = [key \in Keys \cup {DedupKey(mode, level)} |-> {}]
    /\ items' = ResolvePool(mode, level)
    /\ items0' = ResolvePool(mode, level)
    /\ n' = k
    /\ dedup_key' = DedupKey(mode, level)
    /\ controls' = <<mode, level>>
    /\ seed' = ""
    /\ rng' = get_rng("")
    /\ pc' = "called"
    /\ UNCHANGED <<cleared, chosen, refill, still_need, button, branch, used0, tape, first>>

NextResolve ==
    \/ \E mode \in Modes, level \in Levels, k \in 0..MaxN : GetPrompts(mode, level, k)
    \/ Begin
    \/ RefillStep
    \/ RefillExit
    \/ MarkAndReturn
    \/ Finish

ResolveSpec == Init /\ [][NextResolve]_vars

\* ------------------------------------------------------------------ claims
\* The identity-hashes of the entries of a list.
HashesOf(seq) == {Hash(seq[i]) : i \in 1..Len(seq)}

\* The set a key held when the current call was made.
UsedAtCall == IF pc = "called" THEN UsedOf(used_prompt_ids, dedup_key) ELSE UsedOf(used0, dedup_key)

\* The positions of the pool whose item was unused when the call was made.
UnusedPositions == {i \in 1..Len(items0) : Hash(items0[i]) \notin UsedAtCall}

\* The pool items that were unused when the call was made.
UnusedItems == {items0[i] : i \in UnusedPositions}

\* The batch is final once the call has left the draw and the refill loop.
BatchFinal == pc \in {"mark", "done"}

Min(x, y) == IF x <= y THEN x ELSE y

\* C1: every call returns a batch with no two equal items, for every pool
\* (pools with repeated entries included), in the direct-draw branch and in
\* the refill branch.
C1_BatchHasNoDuplicates == BatchFinal => NoDup(chosen)

\* C2: whenever at least n pool entries are unused for the key when the call
\* is made, the batch holds no item an earlier call under the same key has
\* returned since the last reset (served still holds the earlier batches while
\* the batch waits to be marked).
C2_DirectDrawAvoidsServed ==
    (pc = "mark" /\ Cardinality(UnusedPositions) >= n)
        => Range(chosen) \cap served[dedup_key] = {}

\* C2 witness: the second of two calls with the same n >= 1 and key on a pool
\* of more than 2n distinct items, the first one made on an empty used set.
C2_SecondCallReached ==
    /\ pc = "mark"
    /\ n >= 1
    /\ NoDup(items0)
    /\ Len(items0) > 2 * n
    /\ Len(chosen) = n
    /\ Cardinality(served[dedup_key]) = n
    /\ served[dedup_key] \subseteq Range(items0)
    /\ UsedAtCall = {Hash(s) : s \in served[dedup_key]}

\* C3: between two resets no identity-hash is passed to _mark_used twice
\* under one key: no item about to be marked was served under the key since
\* the last reset.  Stated for the case the app meets: a pool of distinct
\* items that holds everything served under the key, so that a repeat can
\* only be a re-serve from the same pool.
C3_NoHashMarkedTwice ==
    (pc = "mark" /\ NoDup(items0) /\ served[dedup_key] \subseteq Range(items0))
        => \A i \in 1..Len(chosen) :
              Hash(chosen[i]) \notin {Hash(s) : s \in served[dedup_key]}

\* C4: once every item of a pool of k distinct items is marked used under the
\* key, a call with 1 <= n <= k returns exactly n distinct pool items, and no
\* step of the call is stuck (nothing raises).
C4_Precondition ==
    /\ pc # "idle"
    /\ NoDup(items0)
    /\ 1 <= n
    /\ n <= Len(items0)
    /\ UnusedPositions = {}

C5_RefillResetsKey ==
    (/\ pc = "done"
     /\ branch = "refill"
     /\ chosen # <<>>
     /\ NoDup(items0)
     /\ served[dedup_key] \subseteq Range(items0))
        => UsedOf(used_prompt_ids, dedup_key) = HashesOf(chosen)

\* C5 (amended): a call that refilled resets nothing: after it the key's used
\* set is its set before the call together with the identities of the batch.
C5_RefillKeepsUsed ==
    (pc = "done" /\ branch = "refill")
        => UsedOf(used_prompt_ids, dedup_key) = UsedOf(used0, dedup_key) \cup HashesOf(chosen)

\* C5 witness: a refilling call returned while an item served before it, and
\* not in its batch, is still marked used.
C5_OldItemStillUsed ==
    /\ pc = "done"
    /\ branch = "refill"
    /\ chosen # <<>>
    /\ \E h \in UsedOf(used0, dedup_key) :
          h \notin HashesOf(chosen) /\ h \in UsedOf(used_prompt_ids, dedup_key)

\* C6: the update button empties the used mapping for every key at once, so
\* in the call that follows every pool item is an unused candidate: the used
\* set the call sees is empty whatever the button wiped, and the call leaves
\* the direct draw only when the pool itself is shorter than n.
C6_ResetIsGlobal ==
    button =>
        /\ pc = "called" =>
              /\ DOMAIN used_prompt_ids = {}
              /\ \A key \in Keys : \A s \in Items :
                    Hash(s) \notin UsedOf(used_prompt_ids, key)
        /\ pc \in {"refill", "mark", "done"} =>
              /\ used0 = EmptyMap
              /\ UnusedPositions = 1..Len(items0)
              /\ branch = "refill" => Len(items0) < n

\* C6 witness: the button wiped non-empty records of two keys, and the batch
\* of the run holds an item that was marked used under its key before.
C6_ResetFreedUsedItem ==
    /\ pc = "done"
    /\ button
    /\ \A key \in Keys : UsedOf(cleared, key) # {}
    /\ \E i \in 1..Len(chosen) : Hash(chosen[i]) \in UsedOf(cleared, dedup_key)

\* C7: a sample call under one key leaves every other key as it was: present
\* or absent as before, with the same set, hence the same candidates.
C7_OtherKeysUntouched ==
    /\ \A s1, s2 \in Selections :
          s1 # s2 => DedupKey(s1[1], s1[2]) # DedupKey(s2[1], s2[2])
    /\ pc \in {"refill", "mark", "done"} =>
          \A key \in Keys \ {dedup_key} :
              /\ (key \in DOMAIN used_prompt_ids) = (key \in DOMAIN used0)
              /\ UsedOf(used_prompt_ids, key) = UsedOf(used0, key)
              /\ Candidates(items0, UsedOf(used_prompt_ids, key))
                    = Candidates(items0, UsedOf(used0, key))

\* C7 witness: a call has returned while another key holds a non-empty used
\* set that covers an item of the call's pool but not the whole batch.
C7_SharedItemServed ==
    /\ pc = "done"
    /\ \E key \in Keys \ {dedup_key} :
          /\ UsedOf(used_prompt_ids, key) # {}
          /\ \E i \in 1..Len(chosen) : Hash(chosen[i]) \notin UsedOf(used_prompt_ids, key)
          /\ \E i \in 1..Len(items0) : Hash(items0[i]) \in UsedOf(used_prompt_ids, key)

\* C8: for a pool of distinct items with at most n items unused for the key,
\* the batch holds every unused item, ahead of any reused one; with exactly n
\* unused items the batch is exactly those.
C8_UnusedServedFirst ==
    (BatchFinal /\ NoDup(items0) /\ Cardinality(UnusedItems) <= n)
        => /\ UnusedItems \subseteq Range(chosen)
           /\ \A i \in 1..Cardinality(UnusedItems) : chosen[i] \in UnusedItems
           /\ Cardinality(UnusedItems) = n =>
                 (Range(chosen) = UnusedItems /\ Len(chosen) = n)

\* C8 witness: fewer unused items than n were left, and the batch was filled
\* up to n with an item served before.
C8_UnusedThenReused ==
    /\ pc = "done"
    /\ NoDup(items0)
    /\ UnusedItems # {}
    /\ Cardinality(UnusedItems) < n
    /\ Len(chosen) = n

\* C9: for a pool of k distinct items and any n >= 0, from any used set, the
\* call returns exactly min(n, k) items (nothing from an empty pool), and the
\* draw is never asked for more than the candidates hold (nothing raises).
C9_ShortReturn ==
    (pc # "idle" /\ NoDup(items0))
        => /\ pc = "called" => ENABLED Begin
           /\ pc = "refill" => ENABLED (RefillStep \/ RefillExit)
           /\ pc = "done" => Len(chosen) = Min(n, Len(items0))
           /\ (pc = "done" /\ items0 = <<>>) => chosen = <<>>

\* C9 witness: more items were asked for than a non-empty pool holds, some of
\* them used already, and the whole pool came back.
C9_AskedMoreThanPool ==
    /\ pc = "done"
    /\ NoDup(items0)
    /\ items0 # <<>>
    /\ n > Len(items0)
    /\ UsedAtCall # {}
    /\ Len(chosen) = Len(items0)

\* C10: no call changes the pool it is given: at every point of the call the
\* pool list holds the entries it held when the call was made, in order.
C10_PoolUnchanged == pc # "idle" => items = items0

\* C10 witness: a call that removed entries from its refill copy has returned.
C10_RefillShrank ==
    /\ pc = "done"
    /\ branch = "refill"
    /\ items0 # <<>>
    /\ Len(refill) < Len(items0)

\* C11: between resets every key's used set only grows: a step either keeps
\* every key present with a superset of its set, or it is the update button
\* of a page run, which leaves no key at all.
C11_UsedSetsOnlyGrow ==
    [][\/ \A key \in DOMAIN used_prompt_ids :
             /\ key \in DOMAIN used_prompt_ids'
             /\ used_prompt_ids[key] \subseteq used_prompt_ids'[key]
       \/ (button' /\ pc = "idle" /\ used_prompt_ids' = EmptyMap)]_vars

\* C11 witness: a call has extended a non-empty used set of its key while the
\* other key holds a non-empty set too.
C11_SetGrew ==
    /\ pc = "done"
    /\ UsedOf(used0, dedup_key) # {}
    /\ UsedOf(used0, dedup_key) # UsedOf(used_prompt_ids, dedup_key)
    /\ \A key \in Keys : UsedOf(used_prompt_ids, key) # {}

\* C12: two runs that build the generator with get_rng from the same
\* non-empty seed string and sample the same pool with the same n and key on
\* an empty used set return the same items in the same order.
C12_SameSeedSameBatch ==
    (pc = "done" /\ first # <<>> /\ seed # "" /\ first[1] = seed /\ UsedAtCall = {})
        => chosen = first[2]

\* C12 witness: the second run with the first run's non-empty seed has
\* returned two or more items drawn from a larger pool.
C12_SecondSeededRunDone ==
    /\ pc = "done"
    /\ first # <<>>
    /\ seed # ""
    /\ first[1] = seed
    /\ Len(chosen) >= 2
    /\ Len(items0) > Len(chosen)

\* C13: pool resolution is total and maps each recognized level to its own
\* table and every other level to the mode's default: all questions for
\* aa36, ITTAKU_TOPICS for ittaku, CRIMINAL_TEMPLATE for villain.
C13_Third(t) == SubSeq(AA36_QUESTIONS, (t - 1) * LevelSize + 1, t * LevelSize)

C13_PoolResolutionTotal ==
    /\ \A mode \in Modes, level \in Levels :
          /\ DOMAIN ResolvePool(mode, level) = 1..Len(ResolvePool(mode, level))
          /\ Range(ResolvePool(mode, level)) \subseteq Range(ItemNames)
    /\ (pc # "idle" /\ controls # <<>>) =>
          LET mode == controls[1]
              level == controls[2]
          IN /\ mode = "aa36" =>
                   /\ level = "business" => items0 = AA36_BUSINESS_REWRITE
                   /\ level = "beginner" => items0 = C13_Third(1)
                   /\ level = "intermediate" => items0 = C13_Third(2)
                   /\ level = "advanced" => items0 = C13_Third(3)
                   /\ level \notin {"business", "beginner", "intermediate", "advanced"}
                         => items0 = AA36_QUESTIONS
             /\ mode = "ittaku" =>
                   /\ level \in {"beginner", "topic_only"} => items0 = ITTAKU_TOPICS
                   /\ level = "business_topic" => items0 = ITTAKU_BUSINESS_TOPICS
                   /\ level \notin {"beginner", "topic_only", "business_topic"}
                         => items0 = ITTAKU_TOPICS
             /\ mode = "villain" =>
                   /\ level = "criminal" => items0 = CRIMINAL_TEMPLATE
                   /\ level = "claimer" => items0 = COMPLAINER_TEMPLATE
                   /\ level \notin {"criminal", "claimer"} => items0 = CRIMINAL_TEMPLATE

\* C13 witness: a call with a level its mode does not recognize has returned
\* items of the mode's default table.
C13_UnknownLevelServed ==
    /\ pc = "done"
    /\ controls # <<>>
    /\ controls[1] = "aa36"
    /\ controls[2] = "expert"
    /\ Len(items0) = 3 * LevelSize
    /\ chosen # <<>>
    /\ chosen[1] \notin Range(C13_Third(1))

\* C14 (as claimed): every page run asks get_prompts for exactly 3 prompts,
\* whatever mode and level are selected.
C14_PageRunAsksThree == (controls # <<>> /\ pc # "idle") => n = 3

\* C15: the refill loop terminates: it starts from a copy as long as the
\* pool, every iteration shortens the copy by exactly one entry whether or
\* not the pick was accepted, and while the loop is entered it can always
\* either iterate or leave, so it runs at most len(pool) iterations.
C15_RefillTerminates ==
    /\ [](pc = "refill" =>
            /\ Len(refill) <= Len(items0)
            /\ ENABLED (RefillStep \/ RefillExit)
            /\ refill = <<>> => ENABLED RefillExit)
    /\ [][/\ (pc = "called" /\ pc' = "refill") => Len(refill') = Len(items0')
          /\ (pc = "refill" /\ pc' = "refill" /\ refill' # refill)
                => Len(refill') = Len(refill) - 1
          /\ (pc = "refill" /\ pc' = "refill" /\ refill' = refill)
                => UNCHANGED vars]_vars

\* C15 witness: a call whose loop ran until the refill copy was empty, with
\* at least one pick rejected, has returned fewer than n items.
C15_LoopRanOut ==
    /\ pc = "done"
    /\ branch = "refill"
    /\ refill = <<>>
    /\ Len(items0) >= 2
    /\ Len(chosen) < Len(items0)
    /\ Len(chosen) < n

\* C16: a returned batch lies in the pool passed in, and the key's used set
\* after the call is its set before the call united with the identities of
\* exactly the batch; so at every state each key's used set is exactly the
\* identities of the items returned under it since the last reset.
C16_UsedIsWhatWasReturned ==
    /\ DOMAIN used_prompt_ids \subseteq Keys
    /\ \A key \in Keys : UsedOf(used_prompt_ids, key) = {Hash(s) : s \in served[key]}
    /\ pc \in {"mark", "done"} => Range(chosen) \subseteq Range(items0)
    /\ pc \in {"refill", "mark"} =>
          UsedOf(used_prompt_ids, dedup_key) = UsedOf(used0, dedup_key)
    /\ pc = "done" =>
          /\ UsedOf(used_prompt_ids, dedup_key)
                = UsedOf(used0, dedup_key) \cup HashesOf(chosen)
          /\ \A h \in UsedOf(used_prompt_ids, dedup_key) \ UsedOf(used0, dedup_key) :
                \E i \in 1..Len(chosen) : Hash(chosen[i]) = h

\* C16 witness: a direct draw of two or more new items has returned under a
\* key that already had used items.
C16_BatchAddedToUsed ==
    /\ pc = "done"
    /\ branch = "direct"
    /\ Len(chosen) >= 2
    /\ UsedOf(used0, dedup_key) # {}
    /\ HashesOf(chosen) \cap UsedOf(used0, dedup_key) = {}
    /\ Cardinality(UsedOf(used_prompt_ids, dedup_key))
          >= Cardinality(UsedOf(used0, dedup_key)) + 2

\* C17: in a page run whose update button fired the mapping is cleared
\* before the sample call and never after it: the call sees no key at all and
\* every pool item unused, the mapping holds nothing but the current key
\* during the call, and at the end of the run it holds exactly that key with
\* the identities of the batch shown.
C17_ResetBeforeSample ==
    (button /\ controls # <<>>) =>
        /\ pc = "called" => used_prompt_ids = EmptyMap
        /\ pc \in {"refill", "mark"} =>
              /\ used0 = EmptyMap
              /\ DOMAIN used_prompt_ids = {dedup_key}
              /\ used_prompt_ids[dedup_key] = {}
        /\ pc = "done" =>
              /\ used0 = EmptyMap
              /\ Cardinality(UnusedPositions) = Len(items0)
              /\ DOMAIN used_prompt_ids = {dedup_key}
              /\ used_prompt_ids[dedup_key] = HashesOf(chosen)
              /\ chosen # <<>>

\* C17 witness: a page run whose button wiped the record of its own key has
\* shown its batch, and the record now holds fewer identities than before.
C17_RunAfterResetShown ==
    /\ pc = "done"
    /\ button
    /\ controls # <<>>
    /\ dedup_key \in DOMAIN cleared
    /\ Cardinality(cleared[dedup_key]) > Cardinality(HashesOf(chosen))
    /\ DOMAIN used_prompt_ids = {dedup_key}

====
